---- MODULE Spec2Model ----
(***************************************************************************)
(* The order-creation and payment-initiation flow of the point-of-sale     *)
(* application: the tRPC procedure orderRouter.createOrder, the catalog    *)
(* rows it reads (createCategory, createProduct) and the payment gateway   *)
(* it calls.                                                               *)
(*                                                                         *)
(* Every `await' of createOrder is a point where another request or a      *)
(* catalog change may interleave, so every awaited call is one action and  *)
(* the synchronous code before it belongs to the action of the previous    *)
(* await.  A database write or the gateway call may fail (it throws); the  *)
(* handler has no try/catch and no transaction, so the exception ends the  *)
(* request and leaves every earlier write in place.                        *)
(*                                                                         *)
(* Spec is one createOrder call with every input of up to MaxLen entries;   *)
(* SpecConcurrent is MaxRequests overlapping calls with shorter inputs.    *)
(* SpecApi is every procedure of the three routers behind                  *)
(* protectedProcedure, called with and without a session.  SpecCart is the *)
(* cart store of the browser, with the objects of its lines kept by        *)
(* reference as the program keeps them.                                    *)
(* Calls are interchangeable, so they arrive in the order of their         *)
(* numbers.  A call keeps its locals after it ended, as a record of what   *)
(* it read and computed.                                                   *)
(*                                                                         *)
(* Numbers.  prices and quantities are integers here.  The handler         *)
(* computes tax = subtotal * 0.1, which is not an integer in general, so   *)
(* the three monetary fields of an Order are kept in fixed point with one  *)
(* decimal digit: the model's value is FxDen times the program's value.    *)
(* For the integers of the model's range this agrees with the IEEE double  *)
(* the program computes whenever the result is an integer.                 *)
(***************************************************************************)
EXTENDS Integers, Sequences, FiniteSets, TLC

\* ------------------------------------------------------------------ bounds
MaxRequests == 2        \* createOrder calls that may overlap (SpecConcurrent)
MaxLen == 2             \* entries of a submitted orderItems list (Spec)
MaxLenConcurrent == 1   \* the same, of overlapping calls (SpecConcurrent)
MaxQuantity == 2        \* largest submitted quantity
MaxPriceChanges == 1    \* out-of-band price changes of catalog rows
MaxAdds == 4            \* addToCart calls (SpecCart)
MaxSignedUrls == 1      \* signed upload URLs the storage issues (SpecApi)

\* --------------------------------------------------------------- constants
MinPrice == 1000        \* createProduct: z.number().min(1000)
MinQuantity == 1        \* createOrder: z.number().min(1)
FxDen == 10             \* 0.1 = 1 / FxDen; fixed-point denominator
MinNameLength == 3      \* createCategory, editCategory: z.string().min(3)

ProductIds == {"p1", "p2"}
ProductOrder == <<"p1", "p2">>        \* the order rows come back in
CategoryIds == {"c1"}
CategoryNames == {"ab", "Food", "Drinks"} \* names submitted for a category
Prices == {999, 1001, 5000, 10000}    \* prices submitted to createProduct
Quantities == 0 .. MaxQuantity        \* quantities submitted to createOrder
Requests == 1 .. MaxRequests

NULL == <<>>
AWAITING_PAYMENT == "AWAITING_PAYMENT"

VARIABLES
    category,       \* Category table: a set of rows
    product,        \* Product table: id -> price, 0 when there is no row
    categoryId,     \* Product table: id -> categoryId, "" when there is no row
    order,          \* Order table: a set of rows
    orderItem,      \* OrderItem table: a set of rows
    payment,        \* payment requests the gateway holds
    req,            \* the createOrder calls: position and locals of each
    priceChanges,   \* number of out-of-band price changes so far
    heap,           \* the CartItem objects of the browser: reference -> fields
    items,          \* useCartStore's items array: a sequence of references
    itemsId,        \* the identity of that array (arrays made so far)
    held,           \* the items array a caller took before the last addToCart
    unauthorized,   \* the procedure whose call protectedProcedure refused last
    signedUrls      \* number of signed upload URLs the storage has issued

cartVars == <<heap, items, itemsId, held>>

\* What no step of createOrder and no catalog write touches.
outsideVars == <<cartVars, unauthorized, signedUrls>>

vars ==
    <<category, product, categoryId, order, orderItem, payment, req, priceChanges,
      outsideVars>>

\* ---------------------------------------------------------- pure functions

\* A number of the program as a fixed-point number of the model.
Fx(n) == n * FxDen

IsInteger(x) == x % FxDen = 0

OrderItemInputs == [productId : ProductIds, quantity : Quantities]

RECURSIVE SeqsUpTo(_, _)
SeqsUpTo(S, n) ==
    IF n = 0 THEN {<<>>}
    ELSE LET shorter == SeqsUpTo(S, n - 1)
         IN  shorter \cup {Append(s, x) : s \in {t \in shorter : Len(t) = n - 1}, x \in S}

Inputs == SeqsUpTo(OrderItemInputs, MaxLen)
InputsConcurrent == SeqsUpTo(OrderItemInputs, MaxLenConcurrent)

\* The zod schema of createOrder: an array of {productId, quantity >= 1}.
ValidInput(orderItems) ==
    \A i \in 1 .. Len(orderItems) : orderItems[i].quantity >= MinQuantity

\* orderItems.map((item) => item.productId)
MapProductId(orderItems) == {orderItems[i].productId : i \in 1 .. Len(orderItems)}

\* db.product.findMany({ where: { id: { in: ids } } }) on catalog cat
RECURSIVE FindManyFrom(_, _, _)
FindManyFrom(cat, ids, i) ==
    IF i > Len(ProductOrder) THEN <<>>
    ELSE LET p == ProductOrder[i]
             rest == FindManyFrom(cat, ids, i + 1)
         IN  IF p \in ids /\ cat[p] # 0
             THEN <<[id |-> p, price |-> cat[p]]>> \o rest
             ELSE rest

\* FindMany changed to read without the `where' filter.
FindManyAll(cat, ids) == FindManyFrom(cat, ProductIds, 1)

FindMany(cat, ids) == FindManyFrom(cat, ids, 1)

\* Find changed to return the last match.
FindLast(orderItems, id) ==
    LET hits == {i \in 1 .. Len(orderItems) : orderItems[i].productId = id}
    IN  IF hits = {} THEN 0
        ELSE CHOOSE i \in hits : \A j \in hits : i >= j

\* orderItems.find((item) => item.productId === id): the index of the first
\* match, 0 for undefined.
Find(orderItems, id) ==
    LET hits == {i \in 1 .. Len(orderItems) : orderItems[i].productId = id}
    IN  IF hits = {} THEN 0
        ELSE CHOOSE i \in hits : \A j \in hits : i <= j

\* Whether some `find(...)!.quantity' of the handler reads undefined.
FindFails(products, orderItems) ==
    \E k \in 1 .. Len(products) : Find(orderItems, products[k].id) = 0

ProductQuantity(orderItems, id) == orderItems[Find(orderItems, id)].quantity

\* products.forEach: subtotal += product.price * productQuantity
RECURSIVE SubtotalFrom(_, _, _)
SubtotalFrom(products, orderItems, k) ==
    IF k > Len(products) THEN 0
    ELSE products[k].price * ProductQuantity(orderItems, products[k].id)
         + SubtotalFrom(products, orderItems, k + 1)

Subtotal(products, orderItems) == Fx(SubtotalFrom(products, orderItems, 1))

\* Tax changed to take the tenth of the total with tax (tax-inclusive).
TaxInclusive(subtotal) == subtotal \div (FxDen + 1)

\* const tax = subtotal * 0.1
Tax(subtotal) == subtotal \div FxDen

\* const grandTotal = subtotal + tax
GrandTotal(subtotal, tax) == subtotal + tax

\* The row db.order.create writes.
OrderRow(id, subtotal, tax, grandTotal) ==
    [id |-> id, grandTotal |-> grandTotal, subtotal |-> subtotal, tax |-> tax,
     status |-> AWAITING_PAYMENT,
     externalTransactionId |-> NULL, paymentMethodId |-> NULL]

\* OrderItemRow changed to take the price the catalog has at the write.
OrderItemRowCurrentPrice(orderId, p, orderItems) ==
    [orderId |-> orderId, price |-> product[p.id], productId |-> p.id,
     quantity |-> ProductQuantity(orderItems, p.id)]

\* The rows db.orderItem.createMany writes.
OrderItemRow(orderId, p, orderItems) ==
    [orderId |-> orderId, price |-> p.price, productId |-> p.id,
     quantity |-> ProductQuantity(orderItems, p.id)]

NewOrderItems(orderId, products, orderItems) ==
    {OrderItemRow(orderId, products[k], orderItems) : k \in 1 .. Len(products)}

\* InsertMany changed to replace the content of the table.
ReplaceAll(table, rows) == rows

\* createMany adds its rows to the table.
InsertMany(table, rows) == table \cup rows

\* The id the database gives the next Order row.
NewOrderId == Cardinality({r \in Requests : req[r].orderId # 0}) + 1

\* What the gateway answers to the k-th payment request it accepts.
GatewayResponse(k) ==
    [id |-> <<"pr", k>>, paymentMethod |-> [id |-> <<"pm", k>>]]

\* What tRPC delivers to the caller.  protectedProcedure throws a TRPCError
\* UNAUTHORIZED; a zod failure is BAD_REQUEST; an exception the handler does
\* not catch (it catches none) is wrapped as INTERNAL_SERVER_ERROR, and
\* nothing in the handler puts the order id into it.
Unauthorized == [code |-> "UNAUTHORIZED", orderId |-> NULL]
BadRequest == [code |-> "BAD_REQUEST", orderId |-> NULL]
Thrown == [code |-> "INTERNAL_SERVER_ERROR", orderId |-> NULL]

\* return { order, newOrderItems, qrString }
Returned(orderId) == [code |-> "OK", orderId |-> orderId]

\* ------------------------------------------------------------------- state

IdleReq ==
    [pc |-> "idle", orderItems |-> <<>>, products |-> <<>>,
     subtotal |-> 0, tax |-> 0, grandTotal |-> 0,
     orderId |-> 0, paymentRequest |-> NULL, result |-> NULL, log |-> <<>>]

Init ==
    /\ category = {}
    /\ product = [p \in ProductIds |-> 0]
    /\ categoryId = [p \in ProductIds |-> ""]
    /\ order = {}
    /\ orderItem = {}
    /\ payment = {}
    /\ req = [r \in Requests |-> IdleReq]
    /\ priceChanges = 0
    /\ heap = <<>>
    /\ items = <<>>
    /\ itemsId = 0
    /\ held = [id |-> 0, refs |-> <<>>, seen |-> <<>>]
    /\ unauthorized = ""
    /\ signedUrls = 0

\* Calls arrive in the order of their numbers.
Arrives(r) ==
    /\ req[r].pc = "idle"
    /\ r > 1 => req[r - 1].pc # "idle"

catalogVars == <<category, product, categoryId, priceChanges>>
ledgerVars == <<order, orderItem, payment>>

\* ----------------------------------------------------------------- catalog

\* The row of the Category table with the id, if there is one.
CategoryRows(c) == {row \in category : row.id = c}

\* Category.name is unique: whether a row other than c has the name.
NameTaken(name, c) == \E row \in category : row.name = name /\ row.id # c

\* The Product rows that reference the category.
ProductsOf(c) == {p \in ProductIds : product[p] # 0 /\ categoryId[p] = c}

\* categoryRouter.createCategory: data is the name alone, productCount is
\* the column's default.
CreateCategory(c, name) ==
    /\ Len(name) >= MinNameLength
    /\ CategoryRows(c) = {}
    /\ ~NameTaken(name, c)
    /\ category' = category \cup {[id |-> c, name |-> name, productCount |-> 0]}
    /\ UNCHANGED <<product, categoryId, priceChanges, ledgerVars, req, outsideVars>>

\* categoryRouter.editCategory: data is the name alone.
EditCategory(c, name) ==
    /\ Len(name) >= MinNameLength
    /\ CategoryRows(c) # {}
    /\ ~NameTaken(name, c)
    /\ category' = {IF row.id = c THEN [row EXCEPT !.name = name] ELSE row :
                        row \in category}
    /\ UNCHANGED <<product, categoryId, priceChanges, ledgerVars, req, outsideVars>>

\* categoryRouter.deleteCategoryById.  The delete of a row that Product rows
\* reference is refused by the database.
DeleteCategoryById(c) ==
    /\ CategoryRows(c) # {}
    /\ ProductsOf(c) = {}
    /\ category' = category \ CategoryRows(c)
    /\ UNCHANGED <<product, categoryId, priceChanges, ledgerVars, req, outsideVars>>

\* productRouter.createProduct: the schema wants price >= 1000, and
\* `connect' wants the category to exist.  No write to the Category row.
CreateProduct(p, price, c) ==
    /\ product[p] = 0
    /\ price >= MinPrice
    /\ CategoryRows(c) # {}
    /\ product' = [product EXCEPT ![p] = price]
    /\ categoryId' = [categoryId EXCEPT ![p] = c]
    /\ UNCHANGED <<category, priceChanges, ledgerVars, req, outsideVars>>

\* A price change of a catalog row.  The application has no operation that
\* does it (updateProduct is a TODO); the row is changed in the database.
ChangePrice(p, price) ==
    /\ priceChanges < MaxPriceChanges
    /\ product[p] # 0
    /\ price >= MinPrice
    /\ price # product[p]
    /\ product' = [product EXCEPT ![p] = price]
    /\ priceChanges' = priceChanges + 1
    /\ UNCHANGED <<category, categoryId, ledgerVars, req, outsideVars>>

\* ------------------------------------------------------------- createOrder

\* protectedProcedure: no session userId, UNAUTHORIZED.
CallUnauthorized(r) ==
    /\ Arrives(r)
    /\ req' = [req EXCEPT ![r].pc = "unauthorized", ![r].result = Unauthorized]
    /\ unauthorized' = "createOrder"
    /\ UNCHANGED <<cartVars, signedUrls, catalogVars, ledgerVars>>

\* The input fails the zod schema: BAD_REQUEST before the handler runs.
CallRejected(r, orderItems) ==
    /\ Arrives(r)
    /\ ~ValidInput(orderItems)
    /\ req' = [req EXCEPT ![r].pc = "rejected", ![r].orderItems = orderItems,
                            ![r].result = BadRequest]
    /\ UNCHANGED <<outsideVars, catalogVars, ledgerVars>>

\* The synchronous code after the product read: the totals.  A `find(...)!'
\* that reads undefined throws a TypeError.
Priced(r, orderItems, products) ==
    IF FindFails(products, orderItems)
    THEN req' = [req EXCEPT ![r].pc = "typeError",
                            ![r].orderItems = orderItems,
                            ![r].products = products,
                            ![r].result = Thrown]
    ELSE LET subtotal == Subtotal(products, orderItems)
             tax == Tax(subtotal)
         IN  req' = [req EXCEPT ![r].pc = "orderCreate",
                                ![r].orderItems = orderItems,
                                ![r].products = products,
                                ![r].subtotal = subtotal,
                                ![r].tax = tax,
                                ![r].grandTotal = GrandTotal(subtotal, tax)]

\* CallFindMany changed to reject a list that names a product the catalog
\* does not have.
CallFindManyStrict(r, orderItems) ==
    /\ Arrives(r)
    /\ ValidInput(orderItems)
    /\ LET products == FindMany(product, MapProductId(orderItems))
       IN  IF Len(products) < Cardinality(MapProductId(orderItems))
           THEN req' = [req EXCEPT ![r].pc = "rejected",
                                   ![r].orderItems = orderItems,
                                   ![r].products = products,
                                   ![r].result = BadRequest]
           ELSE Priced(r, orderItems, products)
    /\ UNCHANGED <<outsideVars, catalogVars, ledgerVars>>

\* The handler up to its first write: the product read and the totals.
CallFindMany(r, orderItems) ==
    /\ Arrives(r)
    /\ ValidInput(orderItems)
    /\ Priced(r, orderItems, FindMany(product, MapProductId(orderItems)))
    /\ UNCHANGED <<outsideVars, catalogVars, ledgerVars>>

\* const order = await db.order.create(...)
OrderCreate(r) ==
    /\ req[r].pc = "orderCreate"
    /\ order' = order \cup
           {OrderRow(NewOrderId, req[r].subtotal, req[r].tax, req[r].grandTotal)}
    /\ req' = [req EXCEPT ![r].pc = "createMany", ![r].orderId = NewOrderId]
    /\ UNCHANGED <<outsideVars, catalogVars, orderItem, payment>>

\* db.order.create throws: nothing was written.
OrderCreateFails(r) ==
    /\ req[r].pc = "orderCreate"
    /\ req' = [req EXCEPT ![r].pc = "orderCreateFailed", ![r].result = Thrown]
    /\ UNCHANGED <<outsideVars, catalogVars, ledgerVars>>

\* const newOrderItems = await db.orderItem.createMany(...)
CreateMany(r) ==
    /\ req[r].pc = "createMany"
    /\ orderItem' = InsertMany(orderItem,
           NewOrderItems(req[r].orderId, req[r].products, req[r].orderItems))
    /\ req' = [req EXCEPT ![r].pc = "createQRIS"]
    /\ UNCHANGED <<outsideVars, catalogVars, order, payment>>

\* db.orderItem.createMany throws: the handler ends, the Order row stays.
CreateManyFails(r) ==
    /\ req[r].pc = "createMany"
    /\ req' = [req EXCEPT ![r].pc = "createManyFailed", ![r].result = Thrown]
    /\ UNCHANGED <<outsideVars, catalogVars, ledgerVars>>

\* CreateQRIS changed to ask for the amount before tax.
CreateQRISSubtotal(r) ==
    /\ req[r].pc = "createQRIS"
    /\ LET k == Cardinality(payment) + 1
           response == GatewayResponse(k)
       IN  /\ payment' = payment \cup
                  {[id |-> response.id, paymentMethodId |-> response.paymentMethod.id,
                    amount |-> req[r].subtotal, orderId |-> req[r].orderId]}
           /\ req' = [req EXCEPT ![r].pc = "orderUpdate",
                                 ![r].paymentRequest = response]
    /\ UNCHANGED <<outsideVars, catalogVars, order, orderItem>>

\* CreateQRIS changed to send the request again after the first answer.
CreateQRISTwice(r) ==
    /\ req[r].pc = "createQRIS"
    /\ LET k == Cardinality(payment) + 1
           first == GatewayResponse(k)
           response == GatewayResponse(k + 1)
       IN  /\ payment' = payment \cup
                  {[id |-> first.id, paymentMethodId |-> first.paymentMethod.id,
                    amount |-> req[r].grandTotal, orderId |-> req[r].orderId],
                   [id |-> response.id, paymentMethodId |-> response.paymentMethod.id,
                    amount |-> req[r].grandTotal, orderId |-> req[r].orderId]}
           /\ req' = [req EXCEPT ![r].pc = "orderUpdate",
                                 ![r].paymentRequest = response]
    /\ UNCHANGED <<outsideVars, catalogVars, order, orderItem>>

\* const paymentRequest = await createQRIS({ amount: grandTotal, orderId })
CreateQRIS(r) ==
    /\ req[r].pc = "createQRIS"
    /\ LET k == Cardinality(payment) + 1
           response == GatewayResponse(k)
       IN  /\ payment' = payment \cup
                  {[id |-> response.id, paymentMethodId |-> response.paymentMethod.id,
                    amount |-> req[r].grandTotal, orderId |-> req[r].orderId]}
           /\ req' = [req EXCEPT ![r].pc = "orderUpdate",
                                 ![r].paymentRequest = response]
    /\ UNCHANGED <<outsideVars, catalogVars, order, orderItem>>

\* CreateQRISFails changed to undo the writes of the call.
CreateQRISFailsRollback(r) ==
    /\ req[r].pc = "createQRIS"
    /\ order' = {o \in order : o.id # req[r].orderId}
    /\ orderItem' = {it \in orderItem : it.orderId # req[r].orderId}
    /\ req' = [req EXCEPT ![r].pc = "createQRISFailed", ![r].result = Thrown]
    /\ UNCHANGED <<outsideVars, catalogVars, payment>>

\* createQRIS throws: the handler ends, Order and OrderItems stay.
CreateQRISFails(r) ==
    /\ req[r].pc = "createQRIS"
    /\ req' = [req EXCEPT ![r].pc = "createQRISFailed", ![r].result = Thrown]
    /\ UNCHANGED <<outsideVars, catalogVars, ledgerVars>>

\* OrderUpdate changed to update without the `where' of the order id.
OrderUpdateAll(r) ==
    /\ req[r].pc = "orderUpdate"
    /\ order' = {[o EXCEPT !.externalTransactionId = req[r].paymentRequest.id,
                           !.paymentMethodId = req[r].paymentRequest.paymentMethod.id]
                 : o \in order}
    /\ req' = [req EXCEPT ![r].pc = "returned",
                          ![r].result = Returned(req[r].orderId)]
    /\ UNCHANGED <<outsideVars, catalogVars, orderItem, payment>>

\* OrderUpdate changed to mark the Order as paid with the ids.
OrderUpdatePaid(r) ==
    /\ req[r].pc = "orderUpdate"
    /\ order' = {IF o.id = req[r].orderId
                 THEN [o EXCEPT !.externalTransactionId = req[r].paymentRequest.id,
                                !.paymentMethodId = req[r].paymentRequest.paymentMethod.id,
                                !.status = "PAID"]
                 ELSE o : o \in order}
    /\ req' = [req EXCEPT ![r].pc = "returned",
                          ![r].result = Returned(req[r].orderId)]
    /\ UNCHANGED <<outsideVars, catalogVars, orderItem, payment>>

\* await db.order.update(...) and the return of the handler
OrderUpdate(r) ==
    /\ req[r].pc = "orderUpdate"
    /\ order' = {IF o.id = req[r].orderId
                 THEN [o EXCEPT !.externalTransactionId = req[r].paymentRequest.id,
                                !.paymentMethodId = req[r].paymentRequest.paymentMethod.id]
                 ELSE o : o \in order}
    /\ req' = [req EXCEPT ![r].pc = "returned",
                          ![r].result = Returned(req[r].orderId)]
    /\ UNCHANGED <<outsideVars, catalogVars, orderItem, payment>>

\* db.order.update throws after the gateway accepted the request.
OrderUpdateFails(r) ==
    /\ req[r].pc = "orderUpdate"
    /\ req' = [req EXCEPT ![r].pc = "orderUpdateFailed", ![r].result = Thrown]
    /\ UNCHANGED <<outsideVars, catalogVars, ledgerVars>>

\* -------------------------------------------------------------------- cart

CartPrices == {5000, 10000}
CartNames == {"Nasi", "Teh"}

\* AddToCartItem = Omit<CartItem, "quantity">
AddToCartItems ==
    [productId : ProductIds, name : CartNames, price : CartPrices, imageUrl : {"url"}]

\* The lines an array of references shows: the fields of each referenced
\* object as they are now.
Lines(h, refs) == [i \in 1 .. Len(refs) |-> h[refs[i]]]

\* FindIndex changed to find nothing.
FindIndexNone(h, refs, productId) == 0

\* duplicateItems.findIndex((item) => item.productId === newItem.productId);
\* 0 stands for -1.
FindIndex(h, refs, productId) ==
    LET hits == {i \in 1 .. Len(refs) : h[refs[i]].productId = productId}
    IN  IF hits = {} THEN 0
        ELSE CHOOSE i \in hits : \A j \in hits : i <= j

\* AddToCart changed to copy the fields of newItem over the line found.
AddToCartOverwrite(newItem) ==
    /\ itemsId < MaxAdds
    /\ LET duplicateItems == items
           existingItemIndex == FindIndex(heap, duplicateItems, newItem.productId)
       IN  IF existingItemIndex = 0
           THEN /\ heap' = Append(heap, [productId |-> newItem.productId,
                                         name |-> newItem.name,
                                         imageUrl |-> newItem.imageUrl,
                                         price |-> newItem.price,
                                         quantity |-> 1])
                /\ items' = Append(duplicateItems, Len(heap) + 1)
           ELSE LET itemToUpdate == duplicateItems[existingItemIndex]
                IN  /\ heap' = [heap EXCEPT ![itemToUpdate].quantity = @ + 1,
                                            ![itemToUpdate].name = newItem.name,
                                            ![itemToUpdate].price = newItem.price]
                    /\ items' = duplicateItems
    /\ itemsId' = itemsId + 1
    /\ held' = [id |-> itemsId, refs |-> items, seen |-> Lines(heap, items)]
    /\ UNCHANGED <<catalogVars, ledgerVars, req, unauthorized, signedUrls>>

\* useCartStore.addToCart.  [...currentState.items] is a new array of the
\* same references; push allocates an object; `itemToUpdate.quantity += 1'
\* writes to the object the old array references too.
AddToCart(newItem) ==
    /\ itemsId < MaxAdds
    /\ LET duplicateItems == items
           existingItemIndex == FindIndex(heap, duplicateItems, newItem.productId)
       IN  IF existingItemIndex = 0
           THEN /\ heap' = Append(heap, [productId |-> newItem.productId,
                                         name |-> newItem.name,
                                         imageUrl |-> newItem.imageUrl,
                                         price |-> newItem.price,
                                         quantity |-> 1])
                /\ items' = Append(duplicateItems, Len(heap) + 1)
                /\ itemsId' = itemsId + 1
           ELSE IF existingItemIndex > Len(duplicateItems)
           THEN UNCHANGED <<heap, items, itemsId>>
           ELSE LET itemToUpdate == duplicateItems[existingItemIndex]
                IN  /\ heap' = [heap EXCEPT ![itemToUpdate].quantity = @ + 1]
                    /\ items' = duplicateItems
                    /\ itemsId' = itemsId + 1
    /\ held' = [id |-> itemsId, refs |-> items, seen |-> Lines(heap, items)]
    /\ UNCHANGED <<catalogVars, ledgerVars, req, unauthorized, signedUrls>>

\* ---------------------------------------------------------- tRPC procedures

\* ctx.session of a request: userId is "" (null) without a signed-in user.
Sessions == {[userId |-> ""], [userId |-> "u1"]}

Procedures ==
    {"getProducts", "createProductImageUploadSignedUrl", "createProduct",
     "getCategories", "createCategory", "editCategory", "deleteCategoryById",
     "createOrder"}

\* throw new TRPCError({ code: "UNAUTHORIZED" }) for a procedure that keeps
\* no record of its calls.
Refuse(procedure) ==
    /\ unauthorized' = procedure
    /\ UNCHANGED <<catalogVars, ledgerVars, req, cartVars, signedUrls>>

\* Protected changed to publicProcedure: no middleware.
Public(session, Throw, Proceed) == Proceed

\* protectedProcedure: if (!ctx.session.userId) throw ...; return next(...)
Protected(session, Throw, Proceed) ==
    IF session.userId = "" THEN Throw ELSE Proceed

\* supabaseAdmin.storage.createSignedUploadUrl and `return data'.  When the
\* storage answers with an error the handler throws and nothing changes.
CreateSignedUploadUrl ==
    /\ signedUrls < MaxSignedUrls
    /\ signedUrls' = signedUrls + 1
    /\ UNCHANGED <<catalogVars, ledgerVars, req, cartVars, unauthorized>>

\* A query reads and returns rows; it writes nothing.
FindManyOnly == UNCHANGED vars

getProducts(session) ==
    Protected(session, Refuse("getProducts"), FindManyOnly)

createProductImageUploadSignedUrl(session) ==
    Protected(session, Refuse("createProductImageUploadSignedUrl"),
              CreateSignedUploadUrl)

createProduct(session, p, price, c) ==
    Protected(session, Refuse("createProduct"), CreateProduct(p, price, c))

getCategories(session) ==
    Protected(session, Refuse("getCategories"), FindManyOnly)

createCategory(session, c, name) ==
    Protected(session, Refuse("createCategory"), CreateCategory(c, name))

editCategory(session, c, name) ==
    Protected(session, Refuse("editCategory"), EditCategory(c, name))

deleteCategoryById(session, c) ==
    Protected(session, Refuse("deleteCategoryById"), DeleteCategoryById(c))

createOrder(session, r, orderItems) ==
    Protected(session, CallUnauthorized(r),
              CallRejected(r, orderItems) \/ CallFindMany(r, orderItems))

\* ----------------------------------------------------------- specification

Catalog ==
    \/ \E c \in CategoryIds : CreateCategory(c, "Food")
    \/ \E p \in ProductIds, price \in Prices, c \in CategoryIds : CreateProduct(p, price, c)
    \/ \E p \in ProductIds, price \in Prices : ChangePrice(p, price)

Handler(r) ==
    \/ OrderCreate(r)
    \/ OrderCreateFails(r)
    \/ CreateMany(r)
    \/ CreateManyFails(r)
    \/ CreateQRIS(r)
    \/ CreateQRISFails(r)
    \/ OrderUpdate(r)
    \/ OrderUpdateFails(r)

\* One createOrder call, with every input up to MaxLen entries, against a
\* catalog that changes under it.
Next ==
    \/ Catalog
    \/ CallUnauthorized(1)
    \/ \E orderItems \in Inputs : CallRejected(1, orderItems)
    \/ \E orderItems \in Inputs : CallFindMany(1, orderItems)
    \/ Handler(1)

Spec == Init /\ [][Next]_vars

\* MaxRequests createOrder calls that overlap in every way, with inputs of up
\* to MaxLenConcurrent entries.
NextConcurrent ==
    \/ Catalog
    \/ \E r \in Requests : CallUnauthorized(r)
    \/ \E r \in Requests, orderItems \in InputsConcurrent : CallRejected(r, orderItems)
    \/ \E r \in Requests, orderItems \in InputsConcurrent : CallFindMany(r, orderItems)
    \/ \E r \in Requests : Handler(r)

SpecConcurrent == Init /\ [][NextConcurrent]_vars

\* The cart of one browser: up to MaxAdds addToCart calls.
NextCart == \E newItem \in AddToCartItems : AddToCart(newItem)

SpecCart == Init /\ [][NextCart]_vars

\* Every procedure of the three routers, called with and without a session;
\* one createOrder call with inputs of up to MaxLenConcurrent entries.
NextApi ==
    \/ \E session \in Sessions : getProducts(session)
    \/ \E session \in Sessions : createProductImageUploadSignedUrl(session)
    \/ \E session \in Sessions, p \in ProductIds, price \in Prices, c \in CategoryIds :
           createProduct(session, p, price, c)
    \/ \E session \in Sessions : getCategories(session)
    \/ \E session \in Sessions, c \in CategoryIds, name \in CategoryNames :
           createCategory(session, c, name)
    \/ \E session \in Sessions, c \in CategoryIds, name \in CategoryNames :
           editCategory(session, c, name)
    \/ \E session \in Sessions, c \in CategoryIds : deleteCategoryById(session, c)
    \/ \E session \in Sessions, orderItems \in InputsConcurrent :
           createOrder(session, 1, orderItems)
    \/ Handler(1)

SpecApi == Init /\ [][NextApi]_vars

\* ------------------------------------------------------------------ claims

\* Positions of a call that has passed db.orderItem.createMany.
AfterCreateMany ==
    {"createQRIS", "createQRISFailed", "orderUpdate", "orderUpdateFailed", "returned"}

\* Positions of a call whose handler ran (it passed the session check and the
\* input schema).
InHandler ==
    {"typeError", "orderCreate", "orderCreateFailed", "createMany", "createManyFailed"}
        \cup AfterCreateMany

OrdersOf(id) == {o \in order : o.id = id}
ItemsOf(id) == {it \in orderItem : it.orderId = id}
IdsOf(products) == {products[k].id : k \in 1 .. Len(products)}
PriceIn(products, id) ==
    LET hits == {k \in 1 .. Len(products) : products[k].id = id}
    IN  IF hits = {} THEN 0 ELSE products[CHOOSE k \in hits : TRUE].price

RECURSIVE SumItems(_)
SumItems(rows) ==
    IF rows = {} THEN 0
    ELSE LET it == CHOOSE x \in rows : TRUE
         IN  it.price * it.quantity + SumItems(rows \ {it})

\* Sum over the lines i of orderItems that Counted(i) selects of the price
\* read for the line's product times the line's quantity.
RECURSIVE SumLines(_, _, _, _)
SumLines(products, orderItems, Counted(_), i) ==
    IF i > Len(orderItems) THEN 0
    ELSE (IF Counted(i)
          THEN PriceIn(products, orderItems[i].productId) * orderItems[i].quantity
          ELSE 0)
         + SumLines(products, orderItems, Counted, i + 1)

\* C1: a call whose OrderItem write failed has left no Order row.
C1_NoOrderAfterItemFailure ==
    \A r \in Requests :
        req[r].pc = "createManyFailed" => OrdersOf(req[r].orderId) = {}

\* C2: every Order row has at least one OrderItem row that references it.
C2_EveryOrderHasAnItem ==
    \A o \in order : ItemsOf(o.id) # {}

\* C3: a call whose orderItems list is empty or holds a quantity below 1 is
\* rejected by the input schema and has written nothing.
C3_EmptyOrBadQuantityRejected ==
    \A r \in Requests :
        /\ req[r].pc \in InHandler \cup {"rejected"}
        /\ Len(req[r].orderItems) = 0 \/ ~ValidInput(req[r].orderItems)
        => /\ req[r].pc = "rejected"
           /\ req[r].orderId = 0

\* C4 as claimed: the persisted subtotal is the sum over all submitted lines of
\* the price read for the line's product times the line's quantity.
C4_SubtotalSumsEveryLine ==
    \A r \in Requests : \A o \in OrdersOf(req[r].orderId) :
        LET Every(i) == TRUE
        IN  o.subtotal = Fx(SumLines(req[r].products, req[r].orderItems, Every, 1))

\* C4 as amended: the persisted subtotal is the sum, over the submitted lines
\* that are the first of their productId, of the price read for the product
\* (nothing for a productId the catalog does not have) times that line's
\* quantity; tax and grandTotal follow from it.
C4_SubtotalSumsFirstLines ==
    \A r \in Requests : \A o \in OrdersOf(req[r].orderId) :
        LET oi == req[r].orderItems
            First(i) == \A j \in 1 .. i - 1 : oi[j].productId # oi[i].productId
            sum == SumLines(req[r].products, oi, First, 1)
        IN  /\ o.subtotal = Fx(sum)
            /\ o.tax * FxDen = Fx(sum)
            /\ o.grandTotal = Fx(sum) + sum

\* C4 witness: the lines 10000 x 2 and 5000 x 1 persisted as subtotal 25000,
\* tax 2500, grandTotal 27500.
C4_Witness ==
    \E r \in Requests : \E o \in OrdersOf(req[r].orderId) :
        /\ req[r].orderItems = <<[productId |-> "p1", quantity |-> 2],
                                 [productId |-> "p2", quantity |-> 1]>>
        /\ req[r].products = <<[id |-> "p1", price |-> 10000],
                               [id |-> "p2", price |-> 5000]>>
        /\ o.subtotal = Fx(25000)
        /\ o.tax = Fx(2500)
        /\ o.grandTotal = Fx(27500)

\* C5: every Order row has tax = subtotal * 0.1 and grandTotal = subtotal + tax.
C5_TaxAndGrandTotal ==
    \A o \in order :
        /\ o.tax * FxDen = o.subtotal
        /\ o.grandTotal = o.subtotal + o.tax

\* C5 witness: an Order row with a subtotal other than 0.
C5_Witness ==
    \E o \in order : o.subtotal > 0 /\ o.tax > 0

\* C6: subtotal, tax and grandTotal of every Order row are non-negative
\* integers.
C6_MonetaryFieldsAreIntegers ==
    \A o \in order :
        /\ IsInteger(o.subtotal) /\ o.subtotal >= 0
        /\ IsInteger(o.tax) /\ o.tax >= 0
        /\ IsInteger(o.grandTotal) /\ o.grandTotal >= 0

\* C7: once createMany of a call has run, the OrderItem rows of its Order are
\* one per product read, each with the price read for that product and a
\* quantity the call submitted for that productId, and the Order row exists.
C7_OneItemPerMatchedProduct ==
    \A r \in Requests :
        req[r].pc \in AfterCreateMany =>
            LET mine == ItemsOf(req[r].orderId)
                oi == req[r].orderItems
            IN  /\ OrdersOf(req[r].orderId) # {}
                /\ \A p \in IdsOf(req[r].products) :
                       Cardinality({it \in mine : it.productId = p}) = 1
                /\ \A it \in mine :
                       /\ it.productId \in IdsOf(req[r].products)
                       /\ it.price = PriceIn(req[r].products, it.productId)
                       /\ \E i \in 1 .. Len(oi) :
                              /\ oi[i].productId = it.productId
                              /\ oi[i].quantity = it.quantity

\* C7 witness: a call wrote two OrderItem rows, one of them with a price the
\* catalog no longer has.
C7_Witness ==
    \E r \in Requests :
        /\ req[r].pc \in AfterCreateMany
        /\ Cardinality(ItemsOf(req[r].orderId)) = 2
        /\ \E it \in ItemsOf(req[r].orderId) : it.price # product[it.productId]

\* C8: an OrderItem row, once written, stays in the table as it is, whatever
\* happens to the catalog afterwards.
C8_OrderItemsNeverChange ==
    [][\A it \in orderItem : it \in orderItem']_vars

\* C8 witness: the price of a product was changed after a call that ordered
\* it returned, and the OrderItem row has the earlier price.
C8_Witness ==
    \E r \in Requests :
        /\ req[r].pc = "returned"
        /\ priceChanges > 0
        /\ \E it \in ItemsOf(req[r].orderId) :
               /\ it.price = PriceIn(req[r].products, it.productId)
               /\ it.price # product[it.productId]

\* C9: a call whose list names a product the catalog read did not return is
\* not rejected for it; the rows it writes are for the products read only and
\* the totals are those of these rows.
C9_UnknownProductOmitted ==
    \A r \in Requests :
        LET oi == req[r].orderItems
            known == IdsOf(req[r].products)
        IN  /\ req[r].pc \in InHandler \cup {"rejected"}
            /\ ValidInput(oi)
            /\ \E i \in 1 .. Len(oi) : oi[i].productId \notin known
            => /\ req[r].pc \in InHandler \ {"typeError"}
               /\ req[r].pc \in AfterCreateMany =>
                      /\ {it.productId : it \in ItemsOf(req[r].orderId)} = known
                      /\ \A o \in OrdersOf(req[r].orderId) :
                             LET sum == SumItems(ItemsOf(req[r].orderId))
                             IN  /\ o.subtotal = Fx(sum)
                                 /\ o.tax * FxDen = Fx(sum)
                                 /\ o.grandTotal = Fx(sum) + sum

\* C9 witness: a call with one known and one unknown productId returned, and
\* its Order has the one OrderItem row.
C9_Witness ==
    \E r \in Requests :
        /\ req[r].pc = "returned"
        /\ Len(req[r].orderItems) = 2
        /\ Len(req[r].products) = 1
        /\ req[r].orderItems[1].productId # req[r].orderItems[2].productId
        /\ Cardinality(ItemsOf(req[r].orderId)) = 1
        /\ OrdersOf(req[r].orderId) # {}

\* C10: after the gateway call of a createOrder failed, its Order row is in the
\* table with status AWAITING_PAYMENT and no external ids, and so are the
\* OrderItem rows the call wrote.
C10_OrderStaysAfterGatewayFailure ==
    \A r \in Requests :
        req[r].pc = "createQRISFailed" =>
            /\ Cardinality(OrdersOf(req[r].orderId)) = 1
            /\ \A o \in OrdersOf(req[r].orderId) :
                   /\ o.status = AWAITING_PAYMENT
                   /\ o.externalTransactionId = NULL
                   /\ o.paymentMethodId = NULL
                   /\ o.subtotal = req[r].subtotal
                   /\ o.tax = req[r].tax
                   /\ o.grandTotal = req[r].grandTotal
            /\ ItemsOf(req[r].orderId) =
                   NewOrderItems(req[r].orderId, req[r].products, req[r].orderItems)

\* C10 witness: the gateway call failed for an Order with an OrderItem row.
C10_Witness ==
    \E r \in Requests :
        /\ req[r].pc = "createQRISFailed"
        /\ OrdersOf(req[r].orderId) # {}
        /\ ItemsOf(req[r].orderId) # {}

\* C11 as claimed: the outcome of a call whose gateway request failed is an
\* error of its own kind, unlike the outcome of a failed database write, and
\* it carries the id of the Order the call persisted.
C11_GatewayFailureNamesOrder ==
    \A r \in Requests :
        req[r].pc = "createQRISFailed" =>
            /\ req[r].result.code \notin {"OK", Thrown.code}
            /\ req[r].result.orderId = req[r].orderId

\* C12: an Order row has external ids only if a gateway request for its id
\* succeeded, and the ids are those the request returned.
C12_ExternalIdsFromOwnRequest ==
    \A o \in order :
        o.externalTransactionId # NULL \/ o.paymentMethodId # NULL =>
            \E pay \in payment :
                /\ pay.orderId = o.id
                /\ pay.id = o.externalTransactionId
                /\ pay.paymentMethodId = o.paymentMethodId

\* C12 witness: one Order has the ids of its request while another Order,
\* whose request also succeeded, has none yet.
C12_Witness ==
    \E o1, o2 \in order :
        /\ o1.externalTransactionId # NULL
        /\ o2.externalTransactionId = NULL
        /\ \E pay \in payment : pay.orderId = o2.id

\* C13 as claimed: a call whose Order update failed after the gateway accepted
\* the request does not report success, and it has logged the inconsistency.
C13_ReconciliationFailureLogged ==
    \A r \in Requests :
        req[r].pc = "orderUpdateFailed" =>
            /\ req[r].result.code # "OK"
            /\ req[r].log # <<>>

\* C17: every gateway request is made by a call whose Order row and OrderItem
\* rows are in the tables, for the grandTotal of that row and its id.
C17_GatewayAfterPersistence ==
    [][\A pay \in payment' \ payment :
           \E r \in Requests :
               /\ req[r].pc = "createQRIS"
               /\ pay.orderId = req[r].orderId
               /\ Cardinality(OrdersOf(pay.orderId)) = 1
               /\ \A o \in OrdersOf(pay.orderId) : pay.amount = o.grandTotal
               /\ ItemsOf(pay.orderId) =
                      NewOrderItems(req[r].orderId, req[r].products, req[r].orderItems)
      ]_vars

\* C17 witness: a gateway request for an amount above 0 whose Order has
\* OrderItem rows.
C17_Witness ==
    \E pay \in payment :
        /\ pay.amount > 0
        /\ ItemsOf(pay.orderId) # {}
        /\ \E o \in OrdersOf(pay.orderId) : o.grandTotal = pay.amount

\* C19: no call ends in the TypeError of `find(...)!.quantity': every product
\* the catalog read returned has an entry in the submitted list.
C19_QuantityLookupNeverFails ==
    \A r \in Requests :
        /\ req[r].pc # "typeError"
        /\ req[r].pc \in InHandler =>
               \A k \in 1 .. Len(req[r].products) :
                   Find(req[r].orderItems, req[r].products[k].id) # 0

\* C19 witness: a call read a product for its list while the catalog held
\* another product the list does not name.
C19_Witness ==
    \E r \in Requests :
        /\ req[r].pc = "orderCreate"
        /\ Len(req[r].products) = 1
        /\ \E p \in ProductIds :
               /\ product[p] # 0
               /\ \A i \in 1 .. Len(req[r].orderItems) :
                      req[r].orderItems[i].productId # p

\* C20: a call whose list repeats a productId writes one OrderItem row for
\* that product, with the quantity of the first entry that names it, and the
\* subtotal counts the product once with that quantity.
C20_DuplicateUsesFirstQuantity ==
    \A r \in Requests :
        LET oi == req[r].orderItems
            Repeated(i) == \E j \in i + 1 .. Len(oi) : oi[j].productId = oi[i].productId
            First(i) == \A j \in 1 .. i - 1 : oi[j].productId # oi[i].productId
        IN  req[r].pc \in AfterCreateMany =>
                /\ \A i \in 1 .. Len(oi) :
                       /\ First(i) /\ Repeated(i)
                       /\ oi[i].productId \in IdsOf(req[r].products)
                       => \E it \in ItemsOf(req[r].orderId) :
                              /\ it.quantity = oi[i].quantity
                              /\ {x \in ItemsOf(req[r].orderId) :
                                     x.productId = oi[i].productId} = {it}
                /\ (\E i \in 1 .. Len(oi) : Repeated(i)) =>
                       \A o \in OrdersOf(req[r].orderId) :
                           o.subtotal = Fx(SumLines(req[r].products, oi, First, 1))

\* C20 witness: the list names p1 twice, with quantity 1 and then 2, and the
\* one OrderItem row has quantity 1.
C20_Witness ==
    \E r \in Requests :
        /\ req[r].pc \in AfterCreateMany
        /\ Len(req[r].orderItems) = 2
        /\ req[r].orderItems[1] = [productId |-> "p1", quantity |-> 1]
        /\ req[r].orderItems[2] = [productId |-> "p1", quantity |-> 2]
        /\ \E it \in ItemsOf(req[r].orderId) :
               /\ ItemsOf(req[r].orderId) = {it}
               /\ it.quantity = 1
               /\ \E o \in OrdersOf(req[r].orderId) : o.subtotal = Fx(it.price)

\* C15: an addToCart call leaves at most one line per productId: it appends a
\* line with quantity 1 for a productId the cart does not have, and for one it
\* has it adds 1 to the quantity of that line and adds no line.
C15_OneLinePerProduct ==
    [][items' # items \/ heap' # heap =>
           LET before == Lines(heap, items)
               after == Lines(heap', items')
           IN  /\ \A i, j \in 1 .. Len(after) :
                      after[i].productId = after[j].productId => i = j
               /\ \E pid \in ProductIds :
                      IF \A i \in 1 .. Len(before) : before[i].productId # pid
                      THEN /\ Len(after) = Len(before) + 1
                           /\ SubSeq(after, 1, Len(before)) = before
                           /\ after[Len(after)].productId = pid
                           /\ after[Len(after)].quantity = 1
                      ELSE /\ Len(after) = Len(before)
                           /\ \A i \in 1 .. Len(before) :
                                  after[i] = IF before[i].productId = pid
                                             THEN [before[i] EXCEPT !.quantity = @ + 1]
                                             ELSE before[i]
      ]_vars

\* C15 witness: the same productId was added twice and then another; the cart
\* shows a line with quantity 2 and a line with quantity 1.
C15_Witness ==
    LET now == Lines(heap, items)
    IN  /\ Len(now) = 2
        /\ now[1].productId = "p1" /\ now[1].quantity = 2
        /\ now[2].productId = "p2" /\ now[2].quantity = 1

\* C16 as claimed: after an addToCart call the array taken before the call
\* shows the productIds and quantities it showed then, and the state holds
\* another array.
C16_PriorStateUnchanged ==
    itemsId > 0 =>
        /\ Lines(heap, held.refs) = held.seen
        /\ held.id # itemsId

\* What a call without a session userId does, procedure by procedure.
CalledWithoutSession(procedure) ==
    LET none == [userId |-> ""]
    IN  CASE procedure = "getProducts" -> getProducts(none)
          [] procedure = "createProductImageUploadSignedUrl" ->
                 createProductImageUploadSignedUrl(none)
          [] procedure = "createProduct" ->
                 \E p \in ProductIds, price \in Prices, c \in CategoryIds :
                     createProduct(none, p, price, c)
          [] procedure = "getCategories" -> getCategories(none)
          [] procedure = "createCategory" ->
                 \E c \in CategoryIds, name \in CategoryNames :
                     createCategory(none, c, name)
          [] procedure = "editCategory" ->
                 \E c \in CategoryIds, name \in CategoryNames :
                     editCategory(none, c, name)
          [] procedure = "deleteCategoryById" ->
                 \E c \in CategoryIds : deleteCategoryById(none, c)
          [] procedure = "createOrder" ->
                 \E orderItems \in InputsConcurrent : createOrder(none, 1, orderItems)

\* C14: a call of any of the eight procedures without a session userId ends
\* in UNAUTHORIZED and leaves the tables, the gateway and the storage as they
\* were; of a createOrder call only the record of its refusal is kept.
C14_NoSessionNoEffect ==
    [][\A procedure \in Procedures :
           CalledWithoutSession(procedure) =>
               /\ unauthorized' = procedure
               /\ UNCHANGED <<catalogVars, ledgerVars, signedUrls>>
               /\ \A r \in Requests :
                      \/ req'[r] = req[r]
                      \/ /\ procedure = "createOrder"
                         /\ req'[r] = [IdleReq EXCEPT !.pc = "unauthorized",
                                                      !.result = Unauthorized]
      ]_vars

\* C14 witness: a createProduct call was refused when a category it could
\* have connected to was there, and there is no Product row.
C14_Witness ==
    /\ unauthorized = "createProduct"
    /\ category # {}
    /\ \A p \in ProductIds : product[p] = 0

\* C18 as claimed: the productCount of every Category row is the number of
\* Product rows that reference it.
C18_ProductCountIsCount ==
    \A row \in category : row.productCount = Cardinality(ProductsOf(row.id))

\* C21: once the OrderItem rows of a call are written, the subtotal of its
\* Order row is the sum of price times quantity over these rows, whatever
\* other calls and price changes ran in between.
C21_SubtotalIsSumOfItems ==
    \A r \in Requests :
        req[r].pc \in AfterCreateMany =>
            \A o \in OrdersOf(req[r].orderId) :
                o.subtotal = Fx(SumItems(ItemsOf(o.id)))

\* C21 witness: two calls wrote OrderItem rows for the same product at
\* different prices, the price having changed between their reads.
C21_Witness ==
    \E r1, r2 \in Requests :
        /\ r1 # r2
        /\ req[r1].pc \in AfterCreateMany
        /\ req[r2].pc \in AfterCreateMany
        /\ \E it1 \in ItemsOf(req[r1].orderId), it2 \in ItemsOf(req[r2].orderId) :
               /\ it1.productId = it2.productId
               /\ it1.price # it2.price
        /\ \A o \in OrdersOf(req[r1].orderId) \cup OrdersOf(req[r2].orderId) :
               o.subtotal > 0

\* C22: the gateway holds at most one request per order id, each for an Order
\* row that is in the table and that one call created, and no call has made
\* more than one request.
C22_OneRequestPerOrder ==
    /\ \A pay1, pay2 \in payment : pay1.orderId = pay2.orderId => pay1 = pay2
    /\ \A pay \in payment :
           /\ OrdersOf(pay.orderId) # {}
           /\ Cardinality({r \in Requests : req[r].orderId = pay.orderId}) = 1
    /\ \A r \in Requests :
           Cardinality({pay \in payment : pay.orderId = req[r].orderId}) <= 1

\* C22 witness: two calls, one after the other or overlapping, each made its
\* request, for two Order rows.
C22_Witness ==
    \E pay1, pay2 \in payment :
        /\ pay1.orderId # pay2.orderId
        /\ pay1.id # pay2.id
        /\ OrdersOf(pay1.orderId) # {}
        /\ OrdersOf(pay2.orderId) # {}

\* C23: every Order row has the status it was created with, AWAITING_PAYMENT,
\* also after the ids of the gateway were written to it.
C23_StatusStaysAwaitingPayment ==
    \A o \in order : o.status = AWAITING_PAYMENT

\* C23 witness: an Order row with the ids of the gateway, of a call that
\* returned.
C23_Witness ==
    \E r \in Requests : \E o \in OrdersOf(req[r].orderId) :
        /\ req[r].pc = "returned"
        /\ o.externalTransactionId # NULL
        /\ o.paymentMethodId # NULL
        /\ o.status = AWAITING_PAYMENT

RECURSIVE SumQuantities(_)
SumQuantities(lines) ==
    IF lines = <<>> THEN 0
    ELSE Head(lines).quantity + SumQuantities(Tail(lines))

\* C24: after the n-th addToCart call the quantities of the lines add up to
\* n and each is at least 1; the call kept every line at its place, with its
\* name, price and imageUrl, and with a quantity not below the one it had.
C24_QuantitiesCountCalls ==
    [][items' # items \/ heap' # heap \/ itemsId' # itemsId =>
           LET before == Lines(heap, items)
               after == Lines(heap', items')
           IN  /\ itemsId' = itemsId + 1
               /\ SumQuantities(before) = itemsId
               /\ SumQuantities(after) = itemsId'
               /\ \A i \in 1 .. Len(after) : after[i].quantity >= 1
               /\ Len(after) >= Len(before)
               /\ \A i \in 1 .. Len(before) :
                      /\ after[i].productId = before[i].productId
                      /\ after[i].name = before[i].name
                      /\ after[i].price = before[i].price
                      /\ after[i].imageUrl = before[i].imageUrl
                      /\ after[i].quantity >= before[i].quantity
      ]_vars

\* C24 witness: MaxAdds calls, three of them for p1 and one for p2, left two
\* lines with the quantities 3 and 1 and with unlike names and prices.
C24_Witness ==
    LET now == Lines(heap, items)
    IN  /\ itemsId = MaxAdds
        /\ Len(now) = 2
        /\ now[1].productId = "p1" /\ now[1].quantity = MaxAdds - 1
        /\ now[2].productId = "p2" /\ now[2].quantity = 1
        /\ now[1].price # now[2].price
        /\ now[1].name # now[2].name

====
